---- MODULE Spec2Model ----
(***************************************************************************)
(* Model of the Home Assistant "inventory" component                       *)
(* (custom_components/inventory/__init__.py).                              *)
(*                                                                         *)
(* Program state: hass.data["inventory"]["items"] (the item list),         *)
(* hass.data["inventory"]["entities"] (unique_id -> InventoryItem), the    *)
(* content of the Store's backing file, and the host's state registry      *)
(* (hass.states).  One action per service handler, plus a restart that     *)
(* runs async_setup again on the backing file.                             *)
(*                                                                         *)
(* A string has its characters in Spelling, so that slugify is computed    *)
(* character by character.  A dict is a function; dict.get is Get.  In     *)
(* Spec, SpecLoaded and SpecAny the service handlers run one at a time:    *)
(* each action is one whole handler call, from its first line to its       *)
(* return or raise.  In SpecSteps and SpecConc a handler call is a task    *)
(* that takes one step per statement and is suspended at its awaits of     *)
(* async_add_entities and store.async_save; SpecSteps dispatches one call  *)
(* at a time and lets a save fail, SpecConc lets a second call begin       *)
(* while the first is suspended.                                           *)
(*                                                                         *)
(* Host collaborators (not part of the component's source) are modelled    *)
(* by their contract: async_add_entities gives the entity the handle       *)
(* "inventory.<unique_id>" and writes its state; Store.async_save          *)
(* overwrites the backing file, or (SpecSteps) leaves it as it is and      *)
(* raises from its await; Store.async_load returns its content.            *)
(***************************************************************************)
EXTENDS Integers, Sequences, FiniteSets, TLC

VARIABLES items, entities, states, store, call, before, base, tasks, epoch

vars == <<items, entities, states, store, call, before, base, tasks, epoch>>

(* ------------------------------ bounds -------------------------------- *)

\* increase_quantity is not called when it would take a quantity above this
MaxQuantity == 2

\* in SpecConc, the calls that may be in flight at once
MaxTasks == 2

(* ------------------------------ strings ------------------------------- *)

\* Python's None; no string of the model is spelled like this
None == "None"

InventoryDomain == "inventory"

\* a default category of ""
DEFAULT_CATEGORY_empty == ""

DEFAULT_CATEGORY == "Uncategorized"

\* the strings of the model, each with its characters
Spelling ==
       ("" :> <<>>)
    @@ ("Flour" :> <<"F", "l", "o", "u", "r">>)
    @@ ("Pantry Flour" :>
           <<"P", "a", "n", "t", "r", "y",
             " ", "F", "l", "o", "u", "r">>)
    @@ ("Pantry" :> <<"P", "a", "n", "t", "r", "y">>)
    @@ ("Uncategorized" :>
           <<"U", "n", "c", "a", "t", "e",
             "g", "o", "r", "i", "z", "e", "d">>)
    @@ ("inventory" :> <<"i", "n", "v", "e", "n", "t", "o", "r", "y">>)
    @@ ("unknown" :> <<"u", "n", "k", "n", "o", "w", "n">>)
    @@ ("flour" :> <<"f", "l", "o", "u", "r">>)
    @@ ("pantry_flour" :>
           <<"p", "a", "n", "t", "r", "y",
             "_", "f", "l", "o", "u", "r">>)
    @@ ("uncategorized_flour" :>
           <<"u", "n", "c", "a", "t", "e", "g", "o", "r",
             "i", "z", "e", "d", "_", "f", "l", "o", "u", "r">>)
    @@ ("inventory.flour" :>
           <<"i", "n", "v", "e", "n", "t", "o",
             "r", "y", ".", "f", "l", "o", "u", "r">>)
    @@ ("inventory.pantry_flour" :>
           <<"i", "n", "v", "e", "n", "t", "o", "r", "y", ".", "p",
             "a", "n", "t", "r", "y", "_", "f", "l", "o", "u", "r">>)
    @@ ("inventory.uncategorized_flour" :>
           <<"i", "n", "v", "e", "n", "t", "o", "r", "y", ".", "u", "n", "c", "a",
             "t", "e", "g", "o", "r", "i", "z", "e", "d", "_", "f", "l", "o", "u", "r">>)

\* the characters of a string, and the string of a sequence of characters
Chars(text) == Spelling[text]

Text(chars) == CHOOSE text \in DOMAIN Spelling : Spelling[text] = chars

UpperCase ==
    <<"A", "B", "C", "D", "E", "F", "G", "H", "I", "J", "K", "L", "M",
      "N", "O", "P", "Q", "R", "S", "T", "U", "V", "W", "X", "Y", "Z">>

LowerCase ==
    <<"a", "b", "c", "d", "e", "f", "g", "h", "i", "j", "k", "l", "m",
      "n", "o", "p", "q", "r", "s", "t", "u", "v", "w", "x", "y", "z">>

Digits == {"0", "1", "2", "3", "4", "5", "6", "7", "8", "9"}

UpperIndex == [c \in {UpperCase[i] : i \in 1..26} |->
                  CHOOSE i \in 1..26 : UpperCase[i] = c]

\* str.lower on one character
ToLower(c) == IF c \in DOMAIN UpperIndex THEN LowerCase[UpperIndex[c]] ELSE c

Alnum == {LowerCase[i] : i \in 1..26} \cup Digits

IsAlnum(c) == c \in Alnum

\* lowercase; every character that is not a letter or a digit is a separator
Normalized(chars) ==
    [i \in 1..Len(chars) |->
        IF IsAlnum(ToLower(chars[i])) THEN ToLower(chars[i]) ELSE "_"]

\* s from position i on, each run of separators as one "_", none at either
\* end; `pending` says that a letter or digit was kept and separators followed
RECURSIVE SlugFrom(_, _, _)
SlugFrom(s, i, pending) ==
    IF i > Len(s) THEN <<>>
    ELSE IF s[i] = "_" THEN SlugFrom(s, i + 1, pending)
    ELSE (IF pending THEN <<"_", s[i]>> ELSE <<s[i]>>)
         \o SlugFrom(s, i + 1, i < Len(s) /\ s[i + 1] = "_")

\* homeassistant.util.slugify(text), separator "_", on the characters of text
slugify(chars) ==
    IF chars = <<>> THEN <<>>
    ELSE LET slug == SlugFrom(Normalized(chars), 1, FALSE)
         IN  IF slug = <<>> THEN Chars("unknown") ELSE slug

(* ------------------------------ helpers ------------------------------- *)

\* dict.get(key, default)
Get(data, key, default) == IF key \in DOMAIN data THEN data[key] ELSE default

\* the characters of the f-string "{category}_{name}"
CategoryName(category, name) == Chars(category) \o <<"_">> \o Chars(name)

\* Python truthiness of a category: None and "" are false
Truthy(category) == category # None /\ category # ""

_generate_unique_id(name, category) ==
    IF Truthy(category) THEN Text(slugify(CategoryName(category, name)))
    ELSE Text(slugify(Chars(name)))

\* _entity_exists that looks the id up among the host's handles
_entity_exists_in_states(unique_id) == unique_id \in DOMAIN states

_entity_exists(unique_id) == unique_id \in DOMAIN entities

\* the handle the host gives an entity when it is added
EntityId(unique_id) ==
    Text(Chars(InventoryDomain) \o <<".">> \o Chars(unique_id))

\* __init__ that takes the id from the name alone, whatever it is given
InventoryItem_name_only(unique_id, name, category, quantity, unit) ==
    [unique_id |-> Text(slugify(Chars(name))),
     name      |-> name,
     category  |-> category,
     state     |-> quantity,
     unit      |-> unit,
     entity_id |-> None]

\* InventoryItem.__init__; entity_id is None until the host adds the entity
InventoryItem(unique_id, name, category, quantity, unit) ==
    [unique_id |-> IF unique_id # None THEN Text(slugify(Chars(unique_id)))
                   ELSE Text(slugify(IF Truthy(category)
                                     THEN CategoryName(category, name)
                                     ELSE Chars(name))),
     name      |-> name,
     category  |-> category,
     state     |-> quantity,
     unit      |-> unit,
     entity_id |-> None]

\* component.async_add_entities on one entity: the entity gets its handle
Registered(entity) == [entity EXCEPT !.entity_id = EntityId(entity.unique_id)]

\* the entities whose handle is entity_id
Matching(entity_id) ==
    {u \in DOMAIN entities : entities[u].entity_id = entity_id}

\* the first entity with the handle; the caller tests for None with Matching
_get_entity_by_entity_id(entity_id) ==
    entities[CHOOSE u \in Matching(entity_id) : TRUE]

\* d[key] = value on a dict
Put(d, key, value) ==
    [k \in DOMAIN d \cup {key} |-> IF k = key THEN value ELSE d[k]]

\* d.pop(key, None)
Pop(d, key) == [k \in DOMAIN d \ {key} |-> d[k]]

\* the sequence without its i-th element
Without(seq, i) == SubSeq(seq, 1, i - 1) \o SubSeq(seq, i + 1, Len(seq))

(* ------------------------------- errors ------------------------------- *)

NoError == [type |-> "None", msg |-> ""]

\* line 74: raise ValueError("Item ... already exists")
DuplicateItemError == [type |-> "ValueError", msg |-> "already exists"]

\* line 93: raise ValueError("Item ... does not exist")
NotFoundError == [type |-> "ValueError", msg |-> "does not exist"]

\* line 180: raise ValueError("Not enough quantity to decrease ...")
InsufficientQuantityError ==
    [type |-> "ValueError", msg |-> "Not enough quantity to decrease"]

\* an attribute read or a method call on None
AttributeError ==
    [type |-> "AttributeError", msg |-> "'NoneType' object has no attribute"]

\* next() on an exhausted generator, inside a coroutine
StopIterationError ==
    [type |-> "RuntimeError", msg |-> "coroutine raised StopIteration"]

\* what store.async_save raises when the backing file cannot be written
PersistenceError ==
    [type |-> "PersistenceError", msg |-> "the backing file was not written"]

\* the outcome of a call that has not returned yet
Pending == [type |-> "Pending", msg |-> ""]

(* --------------------------- the backing file ------------------------- *)

Null == "null"

NoFile == [present |-> FALSE, data |-> <<>>]

ToJson(value) == IF value = None THEN Null ELSE value

FromJson(value) == IF value = Null THEN None ELSE value

\* async_save that writes the last record only
Saved_last(data) ==
    [present |-> TRUE,
     data    |-> [i \in 1..(IF data = <<>> THEN 0 ELSE 1) |->
                     [unique_id |-> ToJson(data[Len(data)].unique_id),
                      name      |-> ToJson(data[Len(data)].name),
                      category  |-> ToJson(data[Len(data)].category),
                      quantity  |-> data[Len(data)].quantity,
                      unit      |-> ToJson(data[Len(data)].unit)]]]

\* the JSON document Store.async_save(data) writes
Saved(data) ==
    [present |-> TRUE,
     data    |-> [i \in 1..Len(data) |->
                     [unique_id |-> ToJson(data[i].unique_id),
                      name      |-> ToJson(data[i].name),
                      category  |-> ToJson(data[i].category),
                      quantity  |-> data[i].quantity,
                      unit      |-> ToJson(data[i].unit)]]]

\* store.async_load() or []: no file gives None, and None or [] is []
Loaded(file) ==
    IF ~file.present THEN <<>>
    ELSE [i \in 1..Len(file.data) |->
             [unique_id |-> FromJson(file.data[i].unique_id),
              name      |-> FromJson(file.data[i].name),
              category  |-> FromJson(file.data[i].category),
              quantity  |-> file.data[i].quantity,
              unit      |-> FromJson(file.data[i].unit)]]

(* ----------------------------- InventoryItem -------------------------- *)

\* increase that adds one, whatever the amount
increase_by_one(entity, quantity) ==
    [err |-> NoError, state |-> entity.state + 1]

\* InventoryItem.increase: the new state
increase(entity, quantity) ==
    [err |-> NoError, state |-> entity.state + quantity]

\* decrease without the test of line 179
decrease_unchecked(entity, quantity) ==
    [err |-> NoError, state |-> entity.state - quantity]

\* decrease with >= for > in line 179
decrease_strict(entity, quantity) ==
    IF quantity >= entity.state
    THEN [err |-> InsufficientQuantityError, state |-> entity.state]
    ELSE [err |-> NoError, state |-> entity.state - quantity]

\* InventoryItem.decrease: raises when quantity > state, else the new state
decrease(entity, quantity) ==
    IF quantity > entity.state
    THEN [err |-> InsufficientQuantityError, state |-> entity.state]
    ELSE [err |-> NoError, state |-> entity.state - quantity]

\* set_state without line 185
set_state_later(entity, new_state) == entity

\* InventoryItem.set_state on the entity
set_state(entity, new_state) == [entity EXCEPT !.state = new_state]

(* --------------------------- the item list ---------------------------- *)

\* the record handle_add appends
item_data(unique_id, name, category, quantity, unit) ==
    [unique_id |-> unique_id, name |-> name, category |-> category,
     quantity |-> quantity, unit |-> unit]

\* the positions of the records next() in _update_stored_item can return
StoredAt(its, entity) ==
    {i \in 1..Len(its) : its[i].unique_id = entity.unique_id}

\* _update_stored_item without line 38
UpdatedItems_unchanged(its, entity) == its

\* _update_stored_item that gives every record the entity's state
UpdatedItems_every(its, entity) ==
    [i \in 1..Len(its) |-> [its[i] EXCEPT !.quantity = entity.state]]

\* _update_stored_item, line 38: the first such record gets the entity's state
UpdatedItems(its, entity) ==
    LET first == CHOOSE i \in StoredAt(its, entity) :
                     \A j \in StoredAt(its, entity) : i <= j
    IN  [its EXCEPT ![first].quantity = entity.state]

\* handle_remove, lines 100-103: the records kept
KeptItem(item, entity) ==
    _generate_unique_id(item.name, item.category) # entity.unique_id

\* handle_remove without lines 100-103
RemainingItems_all(its, entity) == its

RECURSIVE RemainingItems(_, _)
RemainingItems(its, entity) ==
    IF its = <<>> THEN <<>>
    ELSE (IF KeptItem(Head(its), entity) THEN <<Head(its)>> ELSE <<>>)
         \o RemainingItems(Tail(its), entity)

(* ------------------------------ startup ------------------------------- *)

RECURSIVE Restored(_)
\* async_setup, lines 55-59: a later record replaces an earlier one's entity
Restored(saved_items) ==
    IF saved_items = <<>> THEN <<>>
    ELSE LET item   == saved_items[Len(saved_items)]
             entity == Registered(InventoryItem(item.unique_id, item.name,
                           item.category, item.quantity, item.unit))
         IN  Put(Restored(SubSeq(saved_items, 1, Len(saved_items) - 1)),
                 entity.unique_id, entity)

\* the state registry after the host has added the entities
StatesOf(ents) ==
    [id \in {ents[u].entity_id : u \in DOMAIN ents} |->
        ents[CHOOSE u \in DOMAIN ents : ents[u].entity_id = id].state]

(* ---------------------------- observation --------------------------- *)

\* the program state, as `before` keeps it: its value when the last call began
Snapshot ==
    [items |-> items, entities |-> entities, states |-> states, store |-> store]

\* `call` is the last service call: its name, its call.data, the exception it
\* raised (NoError when it returned), and whether it wrote a state to the host
\* and whether it called store.async_save
Outcome(op, data, err, notified, saved) ==
    [op |-> op, data |-> data, err |-> err, notified |-> notified, saved |-> saved]

\* `base`: when the last two calls were a successful add_item and a remove_item
\* of the item it added, or a successful increase_quantity and a
\* decrease_quantity with the same call.data, the program state before the
\* first of the two; otherwise NoPair
NoPair == [kind |-> "none"]

\* the handle of the item a successful add_item call added
AddedId(data) ==
    EntityId(_generate_unique_id(Get(data, "name", None),
                                 Get(data, "category", DEFAULT_CATEGORY)))

PairAfter(op, data) ==
    IF /\ op = "remove_item"
       /\ call.op = "add_item"
       /\ call.err = NoError
       /\ Get(data, "entity_id", None) = AddedId(call.data)
    THEN [kind |-> "add_remove", st |-> before]
    ELSE IF /\ op = "decrease_quantity"
            /\ call.op = "increase_quantity"
            /\ call.err = NoError
            /\ data = call.data
         THEN [kind |-> "increase_decrease", st |-> before]
         ELSE NoPair

\* the handler raised before it changed anything
Raises(op, data, err) ==
    /\ call' = Outcome(op, data, err, FALSE, FALSE)
    /\ UNCHANGED <<items, entities, states, store>>

(* ------------------------------ handlers ------------------------------ *)

handle_add(data) ==
    LET name      == Get(data, "name", None)
        quantity  == Get(data, "quantity", 1)
        unit      == Get(data, "unit", None)
        category  == Get(data, "category", DEFAULT_CATEGORY)
        unique_id == _generate_unique_id(name, category)
        entity    == Registered(InventoryItem(unique_id, name, category,
                                              quantity, unit))
    IN  /\ IF _entity_exists(unique_id)
           THEN Raises("add_item", data, DuplicateItemError)
           ELSE /\ entities' = Put(entities, unique_id, entity)
                /\ states' = Put(states, entity.entity_id, entity.state)
                /\ items' = Append(items, item_data(unique_id, name, category,
                                                    quantity, unit))
                /\ store' = Saved(items')
                /\ call' = Outcome("add_item", data, NoError, TRUE, TRUE)
        /\ before' = Snapshot
        /\ base' = PairAfter("add_item", data)

handle_remove(data) ==
    LET entity_id == Get(data, "entity_id", None)
        entity    == _get_entity_by_entity_id(entity_id)
    IN  /\ IF Matching(entity_id) = {}
           THEN \* line 93 reads entity.name with entity None
                Raises("remove_item", data, AttributeError)
           ELSE /\ states' = Pop(states, entity.entity_id)
                /\ entities' = Pop(entities, entity.unique_id)
                /\ items' = RemainingItems(items, entity)
                /\ store' = Saved(items')
                /\ call' = Outcome("remove_item", data, NoError, FALSE, TRUE)
        /\ before' = Snapshot
        /\ base' = PairAfter("remove_item", data)

\* the handlers' common tail: entity.set_state(result.state), then
\* _update_stored_item(entity)
ChangeQuantity(op, data, entity, result) ==
    LET changed == set_state(entity, result.state)
    IN  /\ entities' = [entities EXCEPT ![entity.unique_id] = changed]
        /\ states' = Put(states, changed.entity_id, changed.state)
        /\ IF StoredAt(items, changed) = {}
           THEN /\ call' = Outcome(op, data, StopIterationError, TRUE, FALSE)
                /\ UNCHANGED <<items, store>>
           ELSE /\ items' = UpdatedItems(items, changed)
                /\ store' = Saved(items')
                /\ call' = Outcome(op, data, NoError, TRUE, TRUE)

increase_quantity(data) ==
    LET entity_id == Get(data, "entity_id", None)
        quantity  == Get(data, "quantity", None)
        entity    == _get_entity_by_entity_id(entity_id)
    IN  /\ IF Matching(entity_id) = {}
           THEN \* line 111 calls entity.increase with entity None
                Raises("increase_quantity", data, AttributeError)
           ELSE /\ entity.state + quantity <= MaxQuantity
                /\ ChangeQuantity("increase_quantity", data, entity,
                                  increase(entity, quantity))
        /\ before' = Snapshot
        /\ base' = PairAfter("increase_quantity", data)

decrease_quantity(data) ==
    LET entity_id == Get(data, "entity_id", None)
        quantity  == Get(data, "quantity", None)
        entity    == _get_entity_by_entity_id(entity_id)
    IN  /\ IF Matching(entity_id) = {}
           THEN \* line 119 calls entity.decrease with entity None
                Raises("decrease_quantity", data, AttributeError)
           ELSE IF decrease(entity, quantity).err # NoError
                THEN Raises("decrease_quantity", data,
                            decrease(entity, quantity).err)
                ELSE ChangeQuantity("decrease_quantity", data, entity,
                                    decrease(entity, quantity))
        /\ before' = Snapshot
        /\ base' = PairAfter("decrease_quantity", data)

\* lines 41-62: the state async_setup builds from the backing file
async_setup(file) ==
    [items    |-> Loaded(file),
     entities |-> Restored(Loaded(file)),
     states   |-> StatesOf(Restored(Loaded(file))),
     store    |-> file]

\* the process ends and starts again: async_setup runs on the backing file
Restart ==
    /\ items' = async_setup(store).items
    /\ entities' = async_setup(store).entities
    /\ states' = async_setup(store).states
    /\ store' = store
    /\ call' = Outcome("async_setup", <<>>, NoError, TRUE, FALSE)
    /\ before' = Snapshot
    /\ base' = NoPair

(* ------------------------------- inputs ------------------------------- *)

\* the amounts increase_quantity and decrease_quantity are given: number > 0
Amounts == {1, MaxQuantity}

\* the call.data add_item is given: the spec's scenario; every default; a
\* second name with the first one's id, with an empty category and quantity 0;
\* the first name with an empty category
AddData ==
    {[name |-> "Flour", quantity |-> 2, unit |-> "kg", category |-> "Pantry"],
     [name |-> "Flour"],
     [name |-> "Pantry Flour", quantity |-> 0, category |-> ""],
     [name |-> "Flour", unit |-> "kg", category |-> ""]}

\* the handles a caller may know: those of the items add_item can add, and
\* those of the entities there are
AddableIds == {AddedId(d) : d \in AddData}

EntityIds == AddableIds \cup {entities[u].entity_id : u \in DOMAIN entities}

RemoveData == {"entity_id" :> e : e \in EntityIds}

QuantityData ==
    {("entity_id" :> e) @@ ("quantity" :> a) : e \in EntityIds, a \in Amounts}

(* ---------------------------- specification --------------------------- *)

\* `epoch` before any call began
NoEpoch ==
    [start |-> [items |-> <<>>, entities |-> <<>>, states |-> <<>>,
                store |-> NoFile],
     calls |-> <<>>,
     errs  |-> <<>>]

\* a first start, with no backing file
Init ==
    /\ store = NoFile
    /\ items = async_setup(NoFile).items
    /\ entities = async_setup(NoFile).entities
    /\ states = async_setup(NoFile).states
    /\ call = Outcome("async_setup", <<>>, NoError, TRUE, FALSE)
    /\ before = [items |-> items, entities |-> entities, states |-> states,
                 store |-> store]
    /\ base = NoPair
    /\ tasks = <<>>
    /\ epoch = NoEpoch

\* no call is in flight when a handler runs as a whole
Whole(handler) == handler /\ UNCHANGED <<tasks, epoch>>

Next ==
    \/ \E data \in AddData : Whole(handle_add(data))
    \/ \E data \in RemoveData : Whole(handle_remove(data))
    \/ \E data \in QuantityData : Whole(increase_quantity(data))
    \/ \E data \in QuantityData : Whole(decrease_quantity(data))
    \/ Whole(Restart)

Spec == Init /\ [][Next]_vars

\* backing files that were not written by this run of the component, and that
\* async_setup loads: every record has the five keys InventoryItem takes.  One
\* record is stored under the id of its name alone, which is not the id its
\* name and category give; one has a null unique_id
OldRecord ==
    [unique_id |-> "flour", name |-> "Flour", category |-> "Pantry",
     quantity |-> 1, unit |-> "kg"]

NullIdRecord ==
    [unique_id |-> None, name |-> "Flour", category |-> "",
     quantity |-> 2, unit |-> None]

DefaultRecord ==
    [unique_id |-> "uncategorized_flour", name |-> "Flour",
     category |-> "Uncategorized", quantity |-> 1, unit |-> None]

LoadableFiles ==
    {NoFile, Saved(<<OldRecord>>), Saved(<<NullIdRecord>>),
     Saved(<<DefaultRecord, OldRecord>>)}

\* a start on any of these backing files
InitLoaded ==
    /\ store \in LoadableFiles
    /\ items = async_setup(store).items
    /\ entities = async_setup(store).entities
    /\ states = async_setup(store).states
    /\ call = Outcome("async_setup", <<>>, NoError, TRUE, FALSE)
    /\ before = [items |-> items, entities |-> entities, states |-> states,
                 store |-> store]
    /\ base = NoPair
    /\ tasks = <<>>
    /\ epoch = NoEpoch

SpecLoaded == InitLoaded /\ [][Next]_vars

(* ----------------------- any numeric input -------------------------- *)

\* the schema of the services takes any number: amounts below 1 too
AnyAmounts == Amounts \cup {0, -1}

\* and add_item takes a quantity below 0: the spec's scenario, and an item
\* of the default category with quantity -1
AnyAddData ==
    {[name |-> "Flour", quantity |-> 2, unit |-> "kg", category |-> "Pantry"],
     [name |-> "Flour", quantity |-> -1]}

AnyEntityIds ==
    {AddedId(d) : d \in AnyAddData}
        \cup {entities[u].entity_id : u \in DOMAIN entities}

AnyRemoveData == {"entity_id" :> e : e \in AnyEntityIds}

AnyQuantityData ==
    {("entity_id" :> e) @@ ("quantity" :> a) :
        e \in AnyEntityIds, a \in AnyAmounts}

\* the call is not made when it would take a quantity further than
\* MaxQuantity from 0
InRange(data, sign) ==
    \A u \in Matching(data.entity_id) :
        entities[u].state + sign * data.quantity
            \in (0 - MaxQuantity)..MaxQuantity

NextAny ==
    \/ \E data \in AnyAddData : Whole(handle_add(data))
    \/ \E data \in AnyRemoveData : Whole(handle_remove(data))
    \/ \E data \in AnyQuantityData :
          InRange(data, 1) /\ Whole(increase_quantity(data))
    \/ \E data \in AnyQuantityData :
          InRange(data, -1) /\ Whole(decrease_quantity(data))
    \/ Whole(Restart)

SpecAny == Init /\ [][NextAny]_vars

(* ------------------- handlers, statement by statement ---------------- *)

\* a call in flight is a task: its place n in epoch.calls, its service and
\* call.data, the statement it is at (pc), the key of the entity it holds,
\* whether it has written a state to the host, and whether its async_save
\* wrote the backing file.  A task is suspended at "add_entities" (line 79,
\* the host has not added the entity yet), at "added" (line 79, the host has
\* added it and the handler has not been resumed) and at "saving" (lines 39,
\* 84, 104); at any other pc it is the coroutine that runs
Suspended == {"add_entities", "added", "saving"}

\* the event loop runs one coroutine at a time: a handler begins when no
\* task is between two awaits
NoneRunning == \A t \in DOMAIN tasks : tasks[t].pc \in Suspended

\* task t is at pc and is the one the event loop can run
MayStep(t, pc) ==
    /\ tasks[t].pc = pc
    /\ \A j \in DOMAIN tasks \ {t} : tasks[j].pc \in Suspended

\* `epoch`: the program state when a call began with no other call in
\* flight, the calls that began since then, and what each raised
Called(op, data) ==
    IF tasks = <<>>
    THEN [start |-> Snapshot,
          calls |-> <<[op |-> op, data |-> data]>>,
          errs  |-> <<Pending>>]
    ELSE [epoch EXCEPT !.calls = Append(@, [op |-> op, data |-> data]),
                       !.errs = Append(@, Pending)]

\* the handler raises before its first await
RaisesAtOnce(op, data, err) ==
    /\ call' = Outcome(op, data, err, FALSE, FALSE)
    /\ epoch' = [Called(op, data) EXCEPT
                    !.errs[Len(Called(op, data).calls)] = err]
    /\ UNCHANGED <<items, entities, states, store, tasks>>

\* the handler goes on as a task
Begins(op, data, unique_id, pc) ==
    /\ tasks' = Append(tasks,
                    [n |-> Len(Called(op, data).calls), op |-> op,
                     data |-> data, pc |-> pc, entity |-> unique_id,
                     notified |-> FALSE, ok |-> TRUE])
    /\ epoch' = Called(op, data)
    /\ call' = call

\* task t returns or raises
Finish(t, err, saved) ==
    /\ tasks' = Without(tasks, t)
    /\ call' = Outcome(tasks[t].op, tasks[t].data, err, tasks[t].notified,
                       saved)
    /\ epoch' = [epoch EXCEPT !.errs[tasks[t].n] = err]

\* handle_add, lines 66-79: up to the await of async_add_entities
add_begin(data) ==
    LET name      == Get(data, "name", None)
        quantity  == Get(data, "quantity", 1)
        unit      == Get(data, "unit", None)
        category  == Get(data, "category", DEFAULT_CATEGORY)
        unique_id == _generate_unique_id(name, category)
        entity    == InventoryItem(unique_id, name, category, quantity, unit)
    IN  /\ NoneRunning
        /\ IF _entity_exists(unique_id)
           THEN RaisesAtOnce("add_item", data, DuplicateItemError)
           ELSE /\ entities' = Put(entities, unique_id, entity)
                /\ Begins("add_item", data, unique_id, "add_entities")
                /\ UNCHANGED <<items, states, store>>
        /\ before' = Snapshot
        /\ base' = NoPair

\* line 79, the host's part: the entity gets its handle and its state is
\* written
add_entities(t) ==
    LET unique_id == tasks[t].entity
    IN  /\ MayStep(t, "add_entities")
        /\ entities' = [entities EXCEPT ![unique_id] = Registered(@)]
        /\ states' = Put(states, entities'[unique_id].entity_id,
                         entities'[unique_id].state)
        /\ tasks' = [tasks EXCEPT ![t].pc = "added", ![t].notified = TRUE]
        /\ UNCHANGED <<items, store, call, before, base, epoch>>

\* handle_add, lines 82-83: resumed, the handler appends the record
add_resume(t) ==
    LET data == tasks[t].data
    IN  /\ MayStep(t, "added")
        /\ items' = Append(items,
               item_data(tasks[t].entity,
                         Get(data, "name", None),
                         Get(data, "category", DEFAULT_CATEGORY),
                         Get(data, "quantity", 1),
                         Get(data, "unit", None)))
        /\ tasks' = [tasks EXCEPT ![t].pc = "async_save"]
        /\ UNCHANGED <<entities, states, store, call, before, base, epoch>>

\* handle_remove, lines 88-103: up to the call of async_save
remove_begin(data) ==
    LET entity_id == Get(data, "entity_id", None)
        entity    == _get_entity_by_entity_id(entity_id)
    IN  /\ NoneRunning
        /\ IF Matching(entity_id) = {}
           THEN RaisesAtOnce("remove_item", data, AttributeError)
           ELSE /\ states' = Pop(states, entity.entity_id)
                /\ entities' = Pop(entities, entity.unique_id)
                /\ items' = RemainingItems(items, entity)
                /\ Begins("remove_item", data, entity.unique_id, "async_save")
                /\ UNCHANGED store
        /\ before' = Snapshot
        /\ base' = NoPair

\* increase_quantity and decrease_quantity, lines 108-111 and 116-119, with
\* InventoryItem.increase or decrease and line 185 of set_state
quantity_begin(op, data) ==
    LET entity_id == Get(data, "entity_id", None)
        quantity  == Get(data, "quantity", None)
        entity    == _get_entity_by_entity_id(entity_id)
        result    == IF op = "increase_quantity"
                     THEN increase(entity, quantity)
                     ELSE decrease(entity, quantity)
    IN  /\ NoneRunning
        /\ IF Matching(entity_id) = {}
           THEN RaisesAtOnce(op, data, AttributeError)
           ELSE IF result.err # NoError
                THEN RaisesAtOnce(op, data, result.err)
                ELSE /\ result.state <= MaxQuantity
                     /\ entities' = [entities EXCEPT ![entity.unique_id] =
                                        set_state(entity, result.state)]
                     /\ Begins(op, data, entity.unique_id, "write_ha_state")
                     /\ UNCHANGED <<items, states, store>>
        /\ before' = Snapshot
        /\ base' = NoPair

\* set_state, line 186: self.async_write_ha_state()
write_ha_state(t) ==
    LET entity == entities[tasks[t].entity]
    IN  /\ MayStep(t, "write_ha_state")
        /\ states' = Put(states, entity.entity_id, entity.state)
        /\ tasks' = [tasks EXCEPT ![t].pc = "update_stored_item",
                                  ![t].notified = TRUE]
        /\ UNCHANGED <<items, entities, store, call, before, base, epoch>>

\* _update_stored_item, lines 36-38
update_stored_item(t) ==
    LET entity == entities[tasks[t].entity]
    IN  /\ MayStep(t, "update_stored_item")
        /\ IF StoredAt(items, entity) = {}
           THEN /\ Finish(t, StopIterationError, FALSE)
                /\ UNCHANGED items
           ELSE /\ items' = UpdatedItems(items, entity)
                /\ tasks' = [tasks EXCEPT ![t].pc = "async_save"]
                /\ UNCHANGED <<call, epoch>>
        /\ UNCHANGED <<entities, states, store, before, base>>

\* lines 39, 84, 104: store.async_save(items) is called and the handler is
\* suspended; the backing file is written, or it is not
async_save(t, ok) ==
    /\ MayStep(t, "async_save")
    /\ store' = IF ok THEN Saved(items) ELSE store
    /\ tasks' = [tasks EXCEPT ![t].pc = "saving", ![t].ok = ok]
    /\ UNCHANGED <<items, entities, states, call, before, base, epoch>>

\* the await of async_save ends: the handler returns, or the exception of
\* the failed write goes through it
async_save_done(t) ==
    /\ MayStep(t, "saving")
    /\ Finish(t, IF tasks[t].ok THEN NoError ELSE PersistenceError, TRUE)
    /\ UNCHANGED <<items, entities, states, store, before, base>>

\* the requests of these specifications: the spec's scenario and an item
\* with every default
StepAddData ==
    {[name |-> "Flour", quantity |-> 2, unit |-> "kg", category |-> "Pantry"],
     [name |-> "Flour"]}

StepEntityIds == {AddedId(d) : d \in StepAddData}

StepRemoveData == {"entity_id" :> e : e \in StepEntityIds}

StepQuantityData ==
    {("entity_id" :> e) @@ ("quantity" :> a) :
        e \in StepEntityIds, a \in Amounts}

\* one call at a time, as the spec has the host dispatch them; a write of the
\* backing file may fail
NextSteps ==
    \/ \E data \in StepAddData : tasks = <<>> /\ add_begin(data)
    \/ \E data \in StepRemoveData : tasks = <<>> /\ remove_begin(data)
    \/ \E data \in StepQuantityData :
          tasks = <<>> /\ quantity_begin("increase_quantity", data)
    \/ \E data \in StepQuantityData :
          tasks = <<>> /\ quantity_begin("decrease_quantity", data)
    \/ \E t \in DOMAIN tasks : add_entities(t)
    \/ \E t \in DOMAIN tasks : add_resume(t)
    \/ \E t \in DOMAIN tasks : write_ha_state(t)
    \/ \E t \in DOMAIN tasks : update_stored_item(t)
    \/ \E t \in DOMAIN tasks : \E ok \in BOOLEAN : async_save(t, ok)
    \/ \E t \in DOMAIN tasks : async_save_done(t)

SpecSteps == Init /\ [][NextSteps]_vars

\* the event loop takes a call while others are suspended at an await; the
\* backing file is written by every async_save
NextConc ==
    \/ \E data \in StepAddData :
          (tasks = <<>> \/ Len(epoch.calls) < MaxTasks) /\ add_begin(data)
    \/ \E data \in StepRemoveData :
          (tasks = <<>> \/ Len(epoch.calls) < MaxTasks) /\ remove_begin(data)
    \/ \E data \in StepQuantityData :
          /\ tasks = <<>> \/ Len(epoch.calls) < MaxTasks
          /\ quantity_begin("increase_quantity", data)
    \/ \E data \in StepQuantityData :
          /\ tasks = <<>> \/ Len(epoch.calls) < MaxTasks
          /\ quantity_begin("decrease_quantity", data)
    \/ \E t \in DOMAIN tasks : add_entities(t)
    \/ \E t \in DOMAIN tasks : add_resume(t)
    \/ \E t \in DOMAIN tasks : write_ha_state(t)
    \/ \E t \in DOMAIN tasks : update_stored_item(t)
    \/ \E t \in DOMAIN tasks : async_save(t, TRUE)
    \/ \E t \in DOMAIN tasks : async_save_done(t)

SpecConc == Init /\ [][NextConc]_vars

(* ------------------------------- claims ------------------------------- *)

\* the handle the last call was given
Target == Get(call.data, "entity_id", None)

\* the keys of the entities of program state st that have the handle
Resolved(st, entity_id) ==
    {u \in DOMAIN st.entities : st.entities[u].entity_id = entity_id}

\* the quantities of the records of the backing file stored under id u
PersistedQuantities(file, u) ==
    {file.data[i].quantity :
        i \in {j \in 1..Len(file.data) : file.data[j].unique_id = u}}

QuantityCalls == {"increase_quantity", "decrease_quantity"}

Actions == {"add_item", "remove_item"} \cup QuantityCalls

\* a handler run as a whole on program state st, for the call c: the program
\* state it leaves and what it raises (handle_add, handle_remove,
\* increase_quantity, decrease_quantity as above, on st)
Serial(st, c) ==
    LET data == c.data
    IN  IF c.op = "add_item"
        THEN LET name      == Get(data, "name", None)
                 quantity  == Get(data, "quantity", 1)
                 unit      == Get(data, "unit", None)
                 category  == Get(data, "category", DEFAULT_CATEGORY)
                 unique_id == _generate_unique_id(name, category)
                 entity    == Registered(InventoryItem(unique_id, name,
                                  category, quantity, unit))
                 its       == Append(st.items,
                                  item_data(unique_id, name, category,
                                            quantity, unit))
             IN  IF unique_id \in DOMAIN st.entities
                 THEN [st |-> st, err |-> DuplicateItemError]
                 ELSE [st  |-> [items    |-> its,
                                entities |-> Put(st.entities, unique_id,
                                                 entity),
                                states   |-> Put(st.states, entity.entity_id,
                                                 entity.state),
                                store    |-> Saved(its)],
                       err |-> NoError]
        ELSE IF Resolved(st, Get(data, "entity_id", None)) = {}
        THEN [st |-> st, err |-> AttributeError]
        ELSE LET entity == st.entities[
                     CHOOSE u \in Resolved(st, Get(data, "entity_id", None)) :
                         TRUE]
             IN  IF c.op = "remove_item"
                 THEN LET its == RemainingItems(st.items, entity)
                      IN  [st  |-> [items    |-> its,
                                    entities |-> Pop(st.entities,
                                                     entity.unique_id),
                                    states   |-> Pop(st.states,
                                                     entity.entity_id),
                                    store    |-> Saved(its)],
                           err |-> NoError]
                 ELSE LET result  == IF c.op = "increase_quantity"
                                     THEN increase(entity, data.quantity)
                                     ELSE decrease(entity, data.quantity)
                          changed == set_state(entity, result.state)
                          ents    == [st.entities EXCEPT
                                         ![entity.unique_id] = changed]
                          sts     == Put(st.states, changed.entity_id,
                                         changed.state)
                      IN  IF result.err # NoError
                          THEN [st |-> st, err |-> result.err]
                          ELSE IF StoredAt(st.items, changed) = {}
                          THEN [st  |-> [items    |-> st.items,
                                         entities |-> ents,
                                         states   |-> sts,
                                         store    |-> st.store],
                                err |-> StopIterationError]
                          ELSE [st  |-> [items    |-> UpdatedItems(st.items,
                                                                   changed),
                                         entities |-> ents,
                                         states   |-> sts,
                                         store    |-> Saved(UpdatedItems(
                                                        st.items, changed))],
                                err |-> NoError]

\* Serial is what the handlers do when each runs as a whole (Spec,
\* SpecLoaded, SpecAny) and when one call is dispatched at a time and every
\* write of the backing file succeeds (SpecSteps)
SerialIsWholeHandler ==
    (/\ tasks = <<>>
     /\ call.op \in Actions
     /\ call.err # PersistenceError) =>
        /\ Serial(before, [op |-> call.op, data |-> call.data]).st = Snapshot
        /\ Serial(before, [op |-> call.op, data |-> call.data]).err = call.err

\* C1: with quantities >= 0 given to add_item and amounts > 0 given to
\* increase_quantity and decrease_quantity, no entity, no record of the item
\* list and no record of the backing file ever has a quantity < 0.
C1_QuantityNeverNegative ==
    /\ \A u \in DOMAIN entities : entities[u].state >= 0
    /\ \A i \in 1..Len(items) : items[i].quantity >= 0
    /\ \A i \in 1..Len(store.data) : store.data[i].quantity >= 0

\* a decrease_quantity was rejected on an item whose quantity is 0
C1_Witness ==
    /\ call.op = "decrease_quantity"
    /\ call.err = InsufficientQuantityError
    /\ \E u \in Resolved(before, Target) : entities[u].state = 0

\* C2: decrease_quantity on an existing item returns exactly when
\* amount <= quantity, and the quantity is then quantity - amount; otherwise
\* it raises the error of line 180 and the entities, the item list and the
\* backing file are as before, with no call of async_save.
C2_Decrease ==
    (call.op = "decrease_quantity") =>
        \A u \in Resolved(before, Target) :
            LET old    == before.entities[u].state
                amount == call.data.quantity
            IN  IF amount <= old
                THEN /\ call.err = NoError
                     /\ entities[u].state = old - amount
                ELSE /\ call.err = InsufficientQuantityError
                     /\ entities = before.entities
                     /\ items = before.items
                     /\ store = before.store
                     /\ ~call.saved

\* a decrease_quantity was rejected on an item whose quantity is not 0
C2_Witness ==
    /\ call.op = "decrease_quantity"
    /\ call.err = InsufficientQuantityError
    /\ \E u \in Resolved(before, Target) : entities[u].state > 0

\* C3: add_item whose id is already a key of the entities raises the error of
\* line 74 and leaves the entities, the item list and the backing file as they
\* were; the item list still has exactly one record with that id, with the
\* quantity the item had.
C3_DuplicateAdd ==
    (call.op = "add_item") =>
        LET id == _generate_unique_id(call.data.name,
                      Get(call.data, "category", DEFAULT_CATEGORY))
            at == {i \in 1..Len(items) : items[i].unique_id = id}
        IN  (id \in DOMAIN before.entities) =>
                /\ call.err = DuplicateItemError
                /\ entities = before.entities
                /\ items = before.items
                /\ store = before.store
                /\ Cardinality(at) = 1
                /\ \A i \in at : items[i].quantity = before.entities[id].state

\* add_item was called a second time with the name and category of an item
\* there is, and with another quantity than the item has
C3_Witness ==
    /\ call.op = "add_item"
    /\ call.err = DuplicateItemError
    /\ \E u \in DOMAIN entities :
          /\ entities[u].name = call.data.name
          /\ entities[u].category = Get(call.data, "category", DEFAULT_CATEGORY)
          /\ entities[u].state # Get(call.data, "quantity", 1)

\* C4: after each of the four service calls that returns, the backing file
\* has exactly one record per entity, under the entity's id and with the
\* entity's quantity.
C4_StoreMirrorsEntities ==
    (call.op \in Actions /\ call.err = NoError) =>
        /\ store.present
        /\ Len(store.data) = Cardinality(DOMAIN entities)
        /\ \A i \in 1..Len(store.data) :
              /\ store.data[i].unique_id \in DOMAIN entities
              /\ entities[store.data[i].unique_id].unique_id
                     = store.data[i].unique_id
              /\ entities[store.data[i].unique_id].state
                     = store.data[i].quantity
        /\ \A u \in DOMAIN entities :
              \E i \in 1..Len(store.data) : store.data[i].unique_id = u

\* a remove_item returned and left two items
C4_Witness ==
    /\ call.op = "remove_item"
    /\ call.err = NoError
    /\ Len(store.data) = 2
    /\ Len(before.store.data) = 3

\* C5: after a restart the entities have the ids, names, categories, units
\* and quantities they had before it, and the item list is the backing file's
\* document.
C5_RestartPreserves ==
    (call.op = "async_setup") =>
        /\ DOMAIN entities = DOMAIN before.entities
        /\ \A u \in DOMAIN entities :
              /\ entities[u].unique_id = before.entities[u].unique_id
              /\ entities[u].name = before.entities[u].name
              /\ entities[u].category = before.entities[u].category
              /\ entities[u].unit = before.entities[u].unit
              /\ entities[u].state = before.entities[u].state
        /\ items = Loaded(store)

\* a restart with two items or more, one with a quantity that is not the one
\* it was added with, one without a unit
C5_Witness ==
    /\ call.op = "async_setup"
    /\ Cardinality(DOMAIN entities) >= 2
    /\ \E u \in DOMAIN entities :
          /\ entities[u].name = "Flour"
          /\ entities[u].category = "Pantry"
          /\ entities[u].state # 2
    /\ \E u \in DOMAIN entities : entities[u].unit = None

\* C6: a remove_item of the item that the add_item just before it added
\* returns and leaves the entities, the item list and the backing file's
\* document as they were before the add_item, whatever backing file the
\* component started on.
C6_AddRemoveRoundTrip ==
    (base.kind = "add_remove") =>
        /\ call.err = NoError
        /\ entities = base.st.entities
        /\ items = base.st.items
        /\ Loaded(store) = Loaded(base.st.store)

\* C7: increase_quantity on an existing item returns; a decrease_quantity
\* with the same handle and amount right after it returns too, and the
\* entity's quantity and its record's quantity in the backing file are those
\* from before the increase_quantity.
C7_IncreaseThenDecrease ==
    /\ (call.op = "increase_quantity" /\ Resolved(before, Target) # {}) =>
           call.err = NoError
    /\ (base.kind = "increase_decrease") =>
           /\ call.err = NoError
           /\ \A u \in Resolved(base.st, Target) :
                 /\ entities[u].state = base.st.entities[u].state
                 /\ PersistedQuantities(store, u) = {base.st.entities[u].state}

\* an increase_quantity and a decrease_quantity by the largest amount, on one
\* of several items
C7_Witness ==
    /\ base.kind = "increase_decrease"
    /\ call.err = NoError
    /\ call.data.quantity = MaxQuantity
    /\ Len(items) >= 2
    /\ Resolved(base.st, Target) # {}

\* C8: add_item with an id that is no key of the entities returns; the item
\* list has one more record, at its end, with the id of the name and
\* category, the quantity given (1 when left out), the unit given and the
\* category given ("Uncategorized" when left out); the entities have one
\* more key, that id; what there was is unchanged.  On an empty store,
\* add_item("Flour", 2, "kg", "Pantry") gives one record with id
\* pantry_flour and quantity 2.
C8_AddNewItem ==
    (call.op = "add_item") =>
        LET name     == call.data.name
            quantity == IF "quantity" \in DOMAIN call.data
                        THEN call.data.quantity ELSE 1
            unit     == IF "unit" \in DOMAIN call.data
                        THEN call.data.unit ELSE None
            category == IF "category" \in DOMAIN call.data
                        THEN call.data.category ELSE "Uncategorized"
            id       == _generate_unique_id(name, category)
        IN  /\ (id \notin DOMAIN before.entities) =>
                   /\ call.err = NoError
                   /\ items = Append(before.items,
                          [unique_id |-> id, name |-> name,
                           category |-> category, quantity |-> quantity,
                           unit |-> unit])
                   /\ Loaded(store) = items
                   /\ DOMAIN entities = DOMAIN before.entities \cup {id}
                   /\ \A u \in DOMAIN before.entities :
                         entities[u] = before.entities[u]
                   /\ entities[id].unique_id = id
                   /\ entities[id].name = name
                   /\ entities[id].category = category
                   /\ entities[id].state = quantity
                   /\ entities[id].unit = unit
            /\ (/\ call.data = [name |-> "Flour", quantity |-> 2,
                                unit |-> "kg", category |-> "Pantry"]
                /\ before.items = <<>>) =>
                   /\ Len(items) = 1
                   /\ items[1].unique_id = "pantry_flour"
                   /\ items[1].quantity = 2
                   /\ DOMAIN entities = {"pantry_flour"}

\* an add_item with every default returned, on a store that was not empty
C8_Witness ==
    /\ call.op = "add_item"
    /\ call.err = NoError
    /\ DOMAIN call.data = {"name"}
    /\ Len(before.items) >= 1
    /\ Len(items) = Len(before.items) + 1

\* C9: remove_item with a handle that no entity has raises the error of
\* line 93, and the entities, the item list, the host's states and the
\* backing file are as before.
C9_RemoveUnknownReference ==
    (call.op = "remove_item" /\ Resolved(before, Target) = {}) =>
        /\ call.err = NotFoundError
        /\ entities = before.entities
        /\ items = before.items
        /\ states = before.states
        /\ store = before.store

\* C10: increase_quantity and decrease_quantity with a handle that no entity
\* has raise the error remove_item means to raise for one, change no quantity
\* and do not call async_save.
C10_QuantityUnknownReference ==
    (call.op \in QuantityCalls /\ Resolved(before, Target) = {}) =>
        /\ call.err = NotFoundError
        /\ entities = before.entities
        /\ items = before.items
        /\ store = before.store
        /\ ~call.saved

\* C11: whatever number add_item is given as quantity and whatever number
\* increase_quantity and decrease_quantity are given as amount, no entity, no
\* record of the item list and no record of the backing file ever has a
\* quantity < 0.
C11_NeverNegativeAnyInput ==
    /\ \A u \in DOMAIN entities : ~(entities[u].state < 0)
    /\ \A i \in 1..Len(items) : ~(items[i].quantity < 0)
    /\ \A i \in 1..Len(store.data) : ~(store.data[i].quantity < 0)

\* C14: every entity's id and every record's id is the id of its name and
\* category; an entity that a call leaves in place keeps its id, name and
\* category; no two entities and no two records of the item list have the
\* same id.
C14_IdsReproducible ==
    /\ \A u \in DOMAIN entities :
          /\ entities[u].unique_id = u
          /\ u = _generate_unique_id(entities[u].name, entities[u].category)
    /\ \A i \in 1..Len(items) :
          items[i].unique_id
              = _generate_unique_id(items[i].name, items[i].category)
    /\ \A u \in DOMAIN entities \cap DOMAIN before.entities :
          /\ entities[u].unique_id = before.entities[u].unique_id
          /\ entities[u].name = before.entities[u].name
          /\ entities[u].category = before.entities[u].category
    /\ \A u, v \in DOMAIN entities :
          (entities[u].unique_id = entities[v].unique_id) => (u = v)
    /\ \A i, j \in 1..Len(items) :
          (items[i].unique_id = items[j].unique_id) => (i = j)

\* three items, two of them with the same name, after a restart
C14_Witness ==
    /\ call.op = "async_setup"
    /\ Cardinality(DOMAIN entities) = 3
    /\ \E u, v \in DOMAIN entities :
          /\ u # v
          /\ entities[u].name = entities[v].name
          /\ entities[u].category # entities[v].category

\* the record is stored under id u, or under no id and its name and
\* category give u
RecordOf(item, u) ==
    \/ item.unique_id = u
    \/ /\ item.unique_id = None
       /\ _generate_unique_id(item.name, item.category) = u

\* C15: after a remove_item that returns, on any backing file the component
\* loads, the entities are those from before without the addressed one, and
\* the item list is the one from before without one record, that of the
\* addressed item (stored under its id, or under no id); the other records
\* are unchanged and in their order.
C15_RemoveExactlyOne ==
    (call.op = "remove_item" /\ call.err = NoError) =>
        \A u \in Resolved(before, Target) :
            /\ entities = Pop(before.entities, u)
            /\ \E i \in 1..Len(before.items) :
                  /\ RecordOf(before.items[i], u)
                  /\ items = Without(before.items, i)

\* C16: increase_quantity on an item there is, added in this run or restored
\* from any backing file the component loads, returns, and the entity's
\* quantity and the quantity of its record in the backing file are then the
\* old quantity plus the amount.
C16_IncreaseSucceeds ==
    (call.op = "increase_quantity") =>
        \A u \in Resolved(before, Target) :
            /\ call.err = NoError
            /\ entities[u].state
                   = before.entities[u].state + call.data.quantity
            /\ \E i \in 1..Len(store.data) :
                  /\ RecordOf(Loaded(store)[i], u)
                  /\ store.data[i].quantity
                         = before.entities[u].state + call.data.quantity

\* C19: increase_quantity and decrease_quantity, returning or raising, leave
\* the keys of the entities, the host's handles, the length and order of the
\* item list, and every field but the quantity of every entity and record
\* as they were; entities and records of other items keep their quantity
\* too.
C19_QuantityFrame ==
    (call.op \in QuantityCalls) =>
        /\ DOMAIN entities = DOMAIN before.entities
        /\ DOMAIN states = DOMAIN before.states
        /\ Len(items) = Len(before.items)
        /\ \A u \in DOMAIN entities :
              /\ [entities[u] EXCEPT !.state = 0]
                     = [before.entities[u] EXCEPT !.state = 0]
              /\ (u \notin Resolved(before, Target)) =>
                     /\ entities[u] = before.entities[u]
                     /\ states[entities[u].entity_id]
                            = before.states[entities[u].entity_id]
        /\ \A i \in 1..Len(items) :
              /\ [items[i] EXCEPT !.quantity = 0]
                     = [before.items[i] EXCEPT !.quantity = 0]
              /\ (items[i].unique_id \notin Resolved(before, Target)) =>
                     items[i] = before.items[i]

\* a decrease_quantity returned on one of three items, and another item has
\* another quantity
C19_Witness ==
    /\ call.op = "decrease_quantity"
    /\ call.err = NoError
    /\ Len(items) = 3
    /\ \E u \in Resolved(before, Target) :
          \E v \in DOMAIN entities :
              /\ v # u
              /\ entities[v].state # entities[u].state
              /\ entities[u].state # before.entities[u].state

\* C12: an add_item or remove_item that raises, the exception of a failed
\* write of the backing file included, leaves the entities and the item list
\* as they were when it began.
C12_FailedAddRemoveUnchanged ==
    (/\ tasks = <<>>
     /\ call.op \in {"add_item", "remove_item"}
     /\ call.err # NoError) =>
        /\ entities = before.entities
        /\ items = before.items

\* the quantity a quantity call in flight (task t) gives its item
NewQuantity(t) ==
    LET old == before.entities[tasks[t].entity].state
    IN  IF tasks[t].op = "increase_quantity"
        THEN old + tasks[t].data.quantity
        ELSE old - tasks[t].data.quantity

\* the quantities of the records of the item list stored under id u
ListedQuantities(u) ==
    {items[i].quantity : i \in {j \in 1..Len(items) : items[j].unique_id = u}}

\* C17: a quantity call that is not rejected first gives the entity its new
\* quantity, with the host's state, the item list and the backing file still
\* as before; then writes the new state to the host; then gives the record
\* its new quantity, and then calls async_save; it returns after the backing
\* file holds the item list.  A decrease_quantity rejected for its amount
\* writes no state and does not call async_save.
C17_QuantityStepOrder ==
    /\ \A t \in DOMAIN tasks :
          (tasks[t].op \in QuantityCalls) =>
              LET u == tasks[t].entity
                  handle == entities[u].entity_id
              IN  /\ entities[u].state = NewQuantity(t)
                  /\ (tasks[t].pc = "write_ha_state") =>
                         /\ ~tasks[t].notified
                         /\ states = before.states
                         /\ items = before.items
                         /\ store = before.store
                  /\ (tasks[t].pc = "update_stored_item") =>
                         /\ tasks[t].notified
                         /\ states[handle] = NewQuantity(t)
                         /\ items = before.items
                         /\ store = before.store
                  /\ (tasks[t].pc = "async_save") =>
                         /\ tasks[t].notified
                         /\ states[handle] = NewQuantity(t)
                         /\ ListedQuantities(u) = {NewQuantity(t)}
                         /\ store = before.store
                  /\ (tasks[t].pc = "saving" /\ tasks[t].ok) =>
                         /\ ListedQuantities(u) = {NewQuantity(t)}
                         /\ Loaded(store) = items
                  /\ tasks[t].pc \in {"write_ha_state", "update_stored_item",
                                      "async_save", "saving"}
    /\ (tasks = <<>> /\ call.op \in QuantityCalls /\ call.err = NoError) =>
          /\ call.notified
          /\ call.saved
          /\ Loaded(store) = items
    /\ (/\ tasks = <<>>
        /\ call.op = "decrease_quantity"
        /\ call.err = InsufficientQuantityError) =>
          /\ ~call.notified
          /\ ~call.saved
          /\ states = before.states
          /\ store = before.store

\* a decrease_quantity on one of two items has written the new state to the
\* host and has not given the record its new quantity yet
C17_Witness ==
    \E t \in DOMAIN tasks :
        /\ tasks[t].op = "decrease_quantity"
        /\ tasks[t].pc = "update_stored_item"
        /\ Len(items) = 2
        /\ states[entities[tasks[t].entity].entity_id]
               \notin ListedQuantities(tasks[t].entity)

\* C18: when the write of the backing file of a quantity call fails, the
\* entity has the new quantity and the backing file is as before; and after
\* any call whose write succeeds, the backing file's document is the item
\* list, which has one record per entity with its quantity, a quantity that
\* an earlier write failed to save included.
C18_LastSaveWins ==
    /\ (/\ tasks = <<>>
        /\ call.op \in QuantityCalls
        /\ call.err = PersistenceError) =>
          /\ store = before.store
          /\ \A u \in Resolved(before, Target) :
                entities[u].state =
                    IF call.op = "increase_quantity"
                    THEN before.entities[u].state + call.data.quantity
                    ELSE before.entities[u].state - call.data.quantity
    /\ (tasks = <<>> /\ call.err = NoError /\ call.saved) =>
          /\ Loaded(store) = items
          /\ Len(items) = Cardinality(DOMAIN entities)
          /\ \A u \in DOMAIN entities :
                /\ ListedQuantities(u) = {entities[u].state}
                /\ PersistedQuantities(store, u) = {entities[u].state}

\* an add_item or a remove_item returned, and the backing file has the
\* quantity of another item that it did not have before the call
C18_Witness ==
    /\ tasks = <<>>
    /\ call.op \in {"add_item", "remove_item"}
    /\ call.err = NoError
    /\ call.saved
    /\ \E u \in DOMAIN entities \cap DOMAIN before.entities :
          /\ PersistedQuantities(before.store, u) # {}
          /\ before.entities[u].state
                 \notin PersistedQuantities(before.store, u)
          /\ PersistedQuantities(store, u) = {entities[u].state}

\* C13: when two calls were in flight at once and both have ended, the
\* entities, the item list and the backing file's document are those that
\* the two handlers, each run as a whole, one after the other in one of the
\* two orders, leave from the program state in which the first call began;
\* and a call that returns in that order has returned.
C13_SerialEquivalent ==
    (tasks = <<>> /\ Len(epoch.calls) = 2) =>
        \E order \in {<<1, 2>>, <<2, 1>>} :
            LET first  == Serial(epoch.start, epoch.calls[order[1]])
                second == Serial(first.st, epoch.calls[order[2]])
            IN  /\ entities = second.st.entities
                /\ items = second.st.items
                /\ Loaded(store) = Loaded(second.st.store)
                /\ (first.err = NoError) => (epoch.errs[order[1]] = NoError)
                /\ (second.err = NoError) => (epoch.errs[order[2]] = NoError)

====
